---- MODULE Spec2Model ----
(***************************************************************************)
(* Model of save_data.py: the OHLC fetch / normalize / persist pipeline.   *)
(*                                                                         *)
(* Python integers are unbounded while TLC's are 32 bit, and the code's    *)
(* millisecond threshold is 10^12.  An integer n is therefore carried as   *)
(* the pair [hi, lo] with n = hi * 1000 + lo and lo \in 0..999 (hi is the  *)
(* floor of n / 1000), which is exact for every value used here.           *)
(***************************************************************************)
EXTENDS Integers, Sequences, FiniteSets, TLC

VARIABLES
    ts_arg, ts_ret,            \* to_unix_timestamp: argument, returned value
    n_arg, n_ret,              \* normalize_ohlc: payload, outcome
    g_resp, g_ret,             \* get_ohlc: provider response, outcome
    store,                     \* csv_data/: filename -> file
    hist,                      \* save_to_csv calls made so far (store harness)
    pc, run, idx, attempt, df, \* batch driver: position, process run, pair, loop variables
    calls, fails, sleeps, delay, saves, callsAfterOk, okDf, savedDf, startFile,
    reports                    \* batch driver: what was printed per pair, this run

vars == <<ts_arg, ts_ret, n_arg, n_ret, g_resp, g_ret, store, hist,
          pc, run, idx, attempt, df, calls, fails, sleeps, delay, saves,
          callsAfterOk, okDf, savedDf, startFile, reports>>

tsVars == <<ts_arg, ts_ret>>
normVars == <<n_arg, n_ret, g_resp, g_ret>>
driverVars == <<pc, run, idx, attempt, df, calls, fails, sleeps, delay, saves,
                callsAfterOk, okDf, savedDf, startFile, reports>>

(***************************************************************************)
(* Bounds of the model.                                                    *)
(***************************************************************************)
MaxLen == 2        \* longest provider array
MaxSaves == 2      \* save_to_csv calls in the store harness
NumPairs == 2      \* pairs of the catalog one batch run walks through
MaxRuns == 2       \* runs of the batch script against the same csv_data/

(***************************************************************************)
(* Integers as [hi, lo].                                                   *)
(***************************************************************************)
Num(h, l) == [hi |-> h, lo |-> l]

NumGT(a, b) == a.hi > b.hi \/ (a.hi = b.hi /\ a.lo > b.lo)

\* n + s for a small integer s (|s| < 10^6)
AddSmall(a, s) == Num(a.hi + ((a.lo + s) \div 1000), (a.lo + s) % 1000)

\* Python's n // 1000 (floor), as a number
FloorDiv1000(a) == Num(a.hi \div 1000, a.hi % 1000)

\* -n
NumNeg(a) == IF a.lo = 0 THEN Num(0 - a.hi, 0) ELSE Num(0 - a.hi - 1, 1000 - a.lo)

\* n / 1000 rounded toward zero, as a number
TruncDiv1000(a) ==
    IF a.hi >= 0 \/ a.lo = 0 THEN FloorDiv1000(a)
    ELSE FloorDiv1000(Num(a.hi + 1, 0))

NumZero == Num(0, 0)

\* 1_000_000_000_000
MS_THRESHOLD == Num(1000000000, 0)

(***************************************************************************)
(* Python values that can stand in a timestamp position: None, an int,     *)
(* or something not numeric (a str).                                       *)
(***************************************************************************)
PyNone == [tag |-> "null", hi |-> 0, lo |-> 0]
PyStr == [tag |-> "str", hi |-> 0, lo |-> 0]
PyInt(a) == [tag |-> "num", hi |-> a.hi, lo |-> a.lo]
AsNum(v) == Num(v.hi, v.lo)

(***************************************************************************)
(* to_unix_timestamp, its None and int branches.                           *)
(***************************************************************************)
to_unix_timestamp(value) ==
    IF value.tag = "null" THEN PyNone
    ELSE IF NumGT(AsNum(value), MS_THRESHOLD)
         THEN PyInt(FloorDiv1000(AsNum(value)))
         ELSE value

(***************************************************************************)
(* Catalogs.                                                               *)
(***************************************************************************)
CRYPTO == <<"btcusd", "ethusd", "xrpusd">>
FOREX == <<"usdx", "eurusd", "gbpusd", "usdchf", "audusd", "nzdusd", "usdcad">>
SYMBOLS == CRYPTO \o FOREX
TIMEFRAMES == <<"1", "5", "15", "30", "60", "240", "D">>

\* int(tf) for the strings that are decimal numerals; -1 stands for ValueError
PyIntOfStr(tf) ==
    CASE tf = "1" -> 1 [] tf = "5" -> 5 [] tf = "15" -> 15 [] tf = "30" -> 30
      [] tf = "60" -> 60 [] tf = "240" -> 240 [] OTHER -> -1

tf_to_seconds(tf) ==
    IF tf = "D" THEN [exc |-> "none", val |-> 86400]
    ELSE IF PyIntOfStr(tf) < 0 THEN [exc |-> "ValueError", val |-> 0]
    ELSE [exc |-> "none", val |-> PyIntOfStr(tf) * 60]

(***************************************************************************)
(* Tables.  A cell of the Date column is a naive timestamp (seconds, as a  *)
(* number) or NaT; a cell of a numeric column is a number or NaN.  A table *)
(* (DataFrame) is the sequence of its rows.                                *)
(***************************************************************************)
NaT == [tag |-> "nat", hi |-> 0, lo |-> 0]
DateOf(a) == [tag |-> "date", hi |-> a.hi, lo |-> a.lo]
NaN == [tag |-> "nan", n |-> 0]
NumCell(k) == [tag |-> "num", n |-> k]

EmptyFrame == << >>

\* DataFrame.empty
IsEmptyFrame(d) == Len(d) = 0

\* The order sort_values("Date") sorts by: ascending, NaT after every date
\* (na_position = "last").
DateLT(x, y) ==
    /\ x.tag = "date"
    /\ (y.tag = "nat" \/ NumGT(AsNum(y), AsNum(x)))

IsSortedByDate(d) == \A i, j \in 1..Len(d) : i < j => ~DateLT(d[j].Date, d[i].Date)

NoDuplicateDates(d) == \A i, j \in 1..Len(d) : i # j => d[i].Date # d[j].Date

\* The rows of d rearranged by the permutation f
Permuted(d, f) == [i \in 1..Len(d) |-> d[f[i]]]

Perms(n) == {f \in [1..n -> 1..n] : \A i, j \in 1..n : i # j => f[i] # f[j]}

\* sort_values("Date") with the default kind = "quicksort", which is not a
\* stable sort: rows of equal Date may come out in any order, rows whose Date
\* is NaT are appended in their original order.
SortValues(d) ==
    {Permuted(d, f) : f \in {g \in Perms(Len(d)) :
        /\ IsSortedByDate(Permuted(d, g))
        /\ \A i, j \in 1..Len(d) :
              (i < j /\ d[g[i]].Date.tag = "nat" /\ d[g[j]].Date.tag = "nat") => g[i] < g[j]}}

(***************************************************************************)
(* The provider's payload (the JSON object under "data"): the keys it has  *)
(* and the array under each of t, o, h, l, c, v.  A price element is a     *)
(* number, null or a string that is no numeral.                            *)
(***************************************************************************)
JsonNum(k) == [tag |-> "num", n |-> k]
JsonNull == [tag |-> "null", n |-> 0]
JsonStr == [tag |-> "str", n |-> 0]

\* dict.get(key, [])
DictGet(ohlc_data, key) ==
    IF key \in ohlc_data.keys THEN ohlc_data[key] ELSE << >>

\* pd.to_numeric(list, errors="coerce")
to_numeric(xs) ==
    [i \in 1..Len(xs) |-> IF xs[i].tag = "num" THEN NumCell(xs[i].n) ELSE NaN]

\* a > b between two Python values: TypeError unless both are numbers (two
\* strings compare, and the only string here equals itself)
PyGT(a, b) ==
    IF a.tag = "num" /\ b.tag = "num"
    THEN [exc |-> "none", val |-> NumGT(AsNum(a), AsNum(b))]
    ELSE IF a.tag = "str" /\ b.tag = "str"
    THEN [exc |-> "none", val |-> FALSE]
    ELSE [exc |-> "TypeError", val |-> FALSE]

\* max(xs) of a non-empty list: the running maximum, each element compared
\* with it in turn
RECURSIVE PyMaxFrom(_, _, _)
PyMaxFrom(xs, i, cur) ==
    IF i > Len(xs) THEN [exc |-> "none", val |-> cur]
    ELSE LET gt == PyGT(xs[i], cur)
         IN IF gt.exc # "none" THEN [exc |-> gt.exc, val |-> cur]
            ELSE PyMaxFrom(xs, i + 1, IF gt.val THEN xs[i] ELSE cur)

PyMax(xs) == PyMaxFrom(xs, 2, xs[1])

\* bool(ts) for None or an int
Truthy(ts) == ts.tag # "null" /\ ~(ts.tag = "num" /\ AsNum(ts) = NumZero)

\* datetime.min and datetime.max as UTC epoch seconds:
\* -62135596800 and 253402300799
DATETIME_MIN == Num(-62135597, 200)
DATETIME_MAX == Num(253402300, 799)

\* datetime.fromtimestamp(int(ts), tz=utc).astimezone(target_tz): raises when
\* the instant, or its wall clock in the target zone, is outside years 1..9999
DatetimeRaises(ts, offset_minutes) ==
    \/ NumGT(DATETIME_MIN, AsNum(ts))
    \/ NumGT(AddSmall(AsNum(ts), offset_minutes * 60), DATETIME_MAX)

\* Series.dt.tz_localize(None) on a cell: the wall clock in the zone
TzLocalizeNone(cell, offset_minutes) ==
    IF cell.tag = "nat" THEN NaT
    ELSE DateOf(AddSmall(AsNum(cell), offset_minutes * 60))

Raised(e) == [exc |-> e, df |-> EmptyFrame]
Returned(d) == [exc |-> "none", df |-> d]

\* The outcomes of normalize_ohlc(ohlc_data, return_tz_offset_minutes): a set,
\* since sort_values leaves the order of rows of equal Date open.
normalize_ohlc(ohlc_data, return_tz_offset_minutes) ==
    IF ohlc_data.keys = {} THEN {Returned(EmptyFrame)}
    ELSE
    LET t_raw == DictGet(ohlc_data, "t")
        mx == PyMax(IF t_raw = << >> THEN <<PyInt(NumZero)>> ELSE t_raw)
        isMs == PyGT(mx.val, PyInt(MS_THRESHOLD))
        t_list == IF isMs.val
                  THEN [i \in 1..Len(t_raw) |->
                          IF t_raw[i].tag = "num"
                          THEN PyInt(FloorDiv1000(AsNum(t_raw[i]))) ELSE PyNone]
                  ELSE t_raw
        datetimes == [i \in 1..Len(t_list) |->
                        IF Truthy(t_list[i]) THEN DateOf(AsNum(t_list[i])) ELSE NaT]
        o == to_numeric(DictGet(ohlc_data, "o"))
        h == to_numeric(DictGet(ohlc_data, "h"))
        l == to_numeric(DictGet(ohlc_data, "l"))
        c == to_numeric(DictGet(ohlc_data, "c"))
        hasV == "v" \in ohlc_data.keys
        v == IF hasV THEN to_numeric(ohlc_data["v"])
             ELSE [i \in 1..Len(t_list) |-> NumCell(0)]
        n == Len(t_list)
        frame == [i \in 1..n |->
                    [Date |-> datetimes[i], Open |-> o[i], High |-> h[i],
                     Low |-> l[i], Close |-> c[i], Volume |-> v[i]]]
    IN  IF mx.exc # "none" THEN {Raised(mx.exc)}
        ELSE IF isMs.exc # "none" THEN {Raised(isMs.exc)}
        ELSE IF \E i \in 1..n :
                   Truthy(t_list[i]) /\ DatetimeRaises(t_list[i], return_tz_offset_minutes)
             THEN {Raised("ValueError")}
        ELSE IF Len(o) # n \/ Len(h) # n \/ Len(l) # n \/ Len(c) # n \/ Len(v) # n
             THEN {Raised("ValueError")}
        ELSE {Returned([i \in 1..n |->
                          [s[i] EXCEPT !.Date = TzLocalizeNone(s[i].Date, return_tz_offset_minutes)]])
                : s \in SortValues(frame)}

(***************************************************************************)
(* get_ohlc.  The provider's answer to the one GET is the input: the       *)
(* request fails, the status is an error, the body is no JSON, the body is *)
(* JSON but no object, or it is an object whose "data" is absent, null, no *)
(* object, or a payload.                                                   *)
(***************************************************************************)
NoPayload == [keys |-> {}, t |-> << >>, o |-> << >>, h |-> << >>, l |-> << >>,
              c |-> << >>, v |-> << >>]

Resp(kind) == [kind |-> kind, data |-> NoPayload]
RespData(payload) == [kind |-> "data", data |-> payload]

\* The body of the try block: an exception, or the value returned; "fall"
\* when the block ends without returning.
get_ohlc_try(resp) ==
    CASE resp.kind = "network_error" -> {Raised("ConnectionError")}
      [] resp.kind = "http_error" -> {Raised("HTTPError")}
      [] resp.kind = "bad_json" -> {Raised("JSONDecodeError")}
      [] resp.kind = "body_not_object" -> {Raised("AttributeError")}
      [] resp.kind \in {"data_absent", "data_null"} -> {[exc |-> "fall", df |-> EmptyFrame]}
      [] resp.kind = "data_not_object" -> {Raised("AttributeError")}
      [] OTHER ->
           IF resp.data.keys = {} THEN {[exc |-> "fall", df |-> EmptyFrame]}
           ELSE normalize_ohlc(resp.data, 3 * 60 + 30)

get_ohlc_nocatch(symbol, timeframe, resp) ==
    IF tf_to_seconds(timeframe).exc # "none" THEN {Raised(tf_to_seconds(timeframe).exc)}
    ELSE {IF r.exc = "fall" THEN Returned(EmptyFrame) ELSE r : r \in get_ohlc_try(resp)}

get_ohlc(symbol, timeframe, resp) ==
    IF tf_to_seconds(timeframe).exc # "none" THEN {Raised(tf_to_seconds(timeframe).exc)}
    ELSE {IF r.exc = "none" THEN r ELSE Returned(EmptyFrame) : r \in get_ohlc_try(resp)}

(***************************************************************************)
(* csv_data/.  A file is the sequence of its data lines under the header   *)
(* Date,Open,High,Low,Close,Volume; a field is the text of a value or      *)
(* blank (NaT and NaN are written as the empty string).                    *)
(***************************************************************************)
NoFile == [exists |-> FALSE, lines |-> << >>]
File(ls) == [exists |-> TRUE, lines |-> ls]

DateField(cell) ==
    IF cell.tag = "nat" THEN [tag |-> "blank", hi |-> 0, lo |-> 0]
    ELSE [tag |-> "text", hi |-> cell.hi, lo |-> cell.lo]

NumField(cell) ==
    IF cell.tag = "nan" THEN [tag |-> "blank", n |-> 0]
    ELSE [tag |-> "text", n |-> cell.n]

ParseDate(f) == IF f.tag = "blank" THEN NaT ELSE DateOf(Num(f.hi, f.lo))

ParseNum(f) == IF f.tag = "blank" THEN NaN ELSE NumCell(f.n)

\* DataFrame.to_csv(index=False, columns=[Date, Open, High, Low, Close, Volume])
to_csv(d) ==
    [i \in 1..Len(d) |->
        [Date |-> DateField(d[i].Date), Open |-> NumField(d[i].Open),
         High |-> NumField(d[i].High), Low |-> NumField(d[i].Low),
         Close |-> NumField(d[i].Close), Volume |-> NumField(d[i].Volume)]]

\* pd.read_csv(filename, parse_dates=["Date"])
read_csv(ls) ==
    [i \in 1..Len(ls) |->
        [Date |-> ParseDate(ls[i].Date), Open |-> ParseNum(ls[i].Open),
         High |-> ParseNum(ls[i].High), Low |-> ParseNum(ls[i].Low),
         Close |-> ParseNum(ls[i].Close), Volume |-> ParseNum(ls[i].Volume)]]

\* str.lower() / the symbols of the catalog and their upper-case forms
Lower(symbol) ==
    CASE symbol = "BTCUSD" -> "btcusd" [] symbol = "ETHUSD" -> "ethusd"
      [] symbol = "XRPUSD" -> "xrpusd" [] symbol = "USDX" -> "usdx"
      [] symbol = "EURUSD" -> "eurusd" [] symbol = "GBPUSD" -> "gbpusd"
      [] symbol = "USDCHF" -> "usdchf" [] symbol = "AUDUSD" -> "audusd"
      [] symbol = "NZDUSD" -> "nzdusd" [] symbol = "USDCAD" -> "usdcad"
      [] OTHER -> symbol

\* f"csv_data/csv_{symbol.lower()}_{timeframe}.csv"
Filename(symbol, timeframe) == <<"csv_data", "csv", Lower(symbol), timeframe, "csv">>

\* drop_duplicates(subset=["Date"]) keeping the last of each Date
RECURSIVE DropDuplicatesKeepLast(_)
DropDuplicatesKeepLast(d) ==
    IF d = << >> THEN << >>
    ELSE IF \E j \in 2..Len(d) : d[j].Date = d[1].Date
         THEN DropDuplicatesKeepLast(Tail(d))
         ELSE <<d[1]>> \o DropDuplicatesKeepLast(Tail(d))

\* drop_duplicates(subset=["Date"]): keep = "first"; NaT equals NaT
RECURSIVE DropDuplicates(_)
DropDuplicates(d) ==
    IF d = << >> THEN << >>
    ELSE LET init == SubSeq(d, 1, Len(d) - 1)
             last == d[Len(d)]
         IN IF \E j \in 1..Len(init) : init[j].Date = last.Date
            THEN DropDuplicates(init)
            ELSE DropDuplicates(init) \o <<last>>

\* The outcomes of save_to_csv(df, symbol, timeframe) on the directory st: io
\* says whether the file system lets the file be opened.
save_to_csv(st, d, symbol, timeframe, io) ==
    LET filename == Filename(symbol, timeframe)
    IN IF io # "ok" THEN {[exc |-> io, store |-> st]}
       ELSE IF st[filename].exists
       THEN LET old_df == read_csv(st[filename].lines)
                merged == DropDuplicates(old_df \o d)
            IN {[exc |-> "none", store |-> [st EXCEPT ![filename] = File(to_csv(m))]]
                  : m \in SortValues(merged)}
       ELSE {[exc |-> "none", store |-> [st EXCEPT ![filename] = File(to_csv(d))]]}

(***************************************************************************)
(* Inputs.                                                                 *)
(***************************************************************************)
\* Sequences over S of length lo..hi
RECURSIVE SeqsOfLen(_, _)
SeqsOfLen(S, n) ==
    IF n = 0 THEN {<< >>}
    ELSE {Append(q, x) : q \in SeqsOfLen(S, n - 1), x \in S}

SeqsBetween(S, lo, hi) == UNION {SeqsOfLen(S, n) : n \in lo..hi}

\* Arguments of to_unix_timestamp: None and integers on both sides of
\* +-10^12, among them 1690000000 and 1690000000000
TsInputs ==
    {PyNone} \cup
    {PyInt(Num(h, l)) :
        h \in {-1690000001, -1690000000, -1000000001, -1000000000, -1690000, -1, 0,
               1690000, 999999999, 1000000000, 1000000001, 1690000000, 1690000300},
        l \in {0, 1, 500, 999}}

\* Elements of the provider's t array: null, a string, 0, small and usual
\* second epochs, 10^12 itself, millisecond epochs
NormTVals ==
    {PyNone, PyStr, PyInt(NumZero), PyInt(Num(0, 999)),
     PyInt(Num(1690000, 0)), PyInt(Num(1690000, 300)),
     PyInt(MS_THRESHOLD), PyInt(Num(1690000000, 0)), PyInt(Num(1690000300, 0))}

Prices(n, base) == [i \in 1..n |-> JsonNum(base + i)]

\* A payload with timestamps t whose price arrays are as long as t
Payload(t, base, hasV) ==
    [keys |-> IF hasV THEN {"t", "o", "h", "l", "c", "v"} ELSE {"t", "o", "h", "l", "c"},
     t |-> t,
     o |-> Prices(Len(t), base), h |-> Prices(Len(t), base + 10),
     l |-> Prices(Len(t), base - 10), c |-> Prices(Len(t), base + 5),
     v |-> IF hasV THEN Prices(Len(t), 1000) ELSE << >>]

\* The same with prices that are null or no numeral
PayloadBadPrices(t) ==
    [Payload(t, 100, TRUE) EXCEPT !.o = [i \in 1..Len(t) |-> JsonStr],
                                  !.v = [i \in 1..Len(t) |-> JsonNull]]

NormPayloads ==
    {NoPayload} \cup
    {Payload(t, 100, hv) : t \in SeqsBetween(NormTVals, 0, MaxLen), hv \in BOOLEAN} \cup
    {PayloadBadPrices(t) : t \in SeqsBetween(NormTVals, 1, MaxLen)}

RespKinds == {"network_error", "http_error", "bad_json", "body_not_object",
              "data_absent", "data_null", "data_not_object", "data"}

\* Timestamps of the payloads saved by the store harness: 0 (a row without a
\* Date), two candles in seconds, the first of them in milliseconds
StoreTVals ==
    {PyInt(NumZero), PyInt(Num(1690000, 0)), PyInt(Num(1690000, 300)),
     PyInt(Num(1690000000, 0))}

\* The provider lists candles in time order (0, the row without a Date, first)
\* and may repeat one
Ascending(t) == \A i \in 1..(Len(t) - 1) : ~NumGT(AsNum(t[i]), AsNum(t[i + 1]))

StorePayloads ==
    {Payload(t, 100, FALSE) :
        t \in {u \in SeqsBetween(StoreTVals, 1, MaxLen) : Ascending(u)}}

\* The non-empty tables get_ohlc returns for a set of payloads
TablesOf(payloads) ==
    {r.df : r \in {x \in UNION {get_ohlc("btcusd", "1", RespData(q)) : q \in payloads} :
                     ~IsEmptyFrame(x.df)}}

\* The tables the store harness saves
StoreTables == TablesOf(StorePayloads)

\* What the provider answers during a batch run
BatchResponses ==
    {Resp("network_error"), Resp("http_error"), Resp("data_absent"),
     RespData(Payload(<<PyInt(Num(1690000, 300))>>, 100, FALSE)),
     RespData(Payload(<<PyInt(Num(1690000000, 0)), PyInt(Num(1690000300, 0))>>, 200, TRUE)),
     RespData(Payload(<<PyNone>>, 100, FALSE))}

\* What the file system answers when save_to_csv opens the file
IoOutcomes == {"ok", "PermissionError"}

(***************************************************************************)
(* Idle values of the parts a specification does not exercise.             *)
(***************************************************************************)
Pending == [done |-> FALSE, exc |-> "none", df |-> EmptyFrame]
TsPending == [done |-> FALSE, val |-> PyNone]

\* The pairs in the order of the nested loops, symbol-major
PairAt(i) ==
    [symbol |-> SYMBOLS[((i - 1) \div Len(TIMEFRAMES)) + 1],
     tf |-> TIMEFRAMES[((i - 1) % Len(TIMEFRAMES)) + 1]]

Filenames == {Filename(PairAt(i).symbol, PairAt(i).tf) : i \in 1..NumPairs}

EmptyStore == [f \in Filenames |-> NoFile]

TsIdle == ts_arg = PyNone /\ ts_ret = TsPending
NormIdle == n_arg = NoPayload /\ n_ret = Pending /\ g_resp = Resp("data_absent") /\ g_ret = Pending
StoreIdle == store = EmptyStore /\ hist = << >>
DriverIdle ==
    /\ pc = "idle" /\ run = 0 /\ idx = 0 /\ attempt = 0 /\ df = EmptyFrame
    /\ calls = 0 /\ fails = 0 /\ sleeps = 0 /\ delay = 0 /\ saves = 0 /\ callsAfterOk = 0
    /\ okDf = EmptyFrame /\ savedDf = EmptyFrame /\ startFile = NoFile /\ reports = << >>

(***************************************************************************)
(* SpecTs: a call of to_unix_timestamp.                                    *)
(***************************************************************************)
InitTs == ts_arg \in TsInputs /\ ts_ret = TsPending /\ NormIdle /\ StoreIdle /\ DriverIdle

CallToUnixTimestamp ==
    /\ ~ts_ret.done
    /\ ts_ret' = [done |-> TRUE, val |-> to_unix_timestamp(ts_arg)]
    /\ UNCHANGED <<ts_arg, normVars, store, hist, driverVars>>

NextTs == CallToUnixTimestamp

SpecTs == InitTs /\ [][NextTs]_vars

(***************************************************************************)
(* SpecNorm: the provider answers; normalize_ohlc is called on the payload *)
(* and get_ohlc on the answer.                                             *)
(***************************************************************************)
InitNorm ==
    /\ \E q \in NormPayloads, k \in RespKinds :
          /\ g_resp = (IF k = "data" THEN RespData(q) ELSE Resp(k))
          /\ n_arg = (IF k = "data" THEN q ELSE NoPayload)
    /\ n_ret = Pending /\ g_ret = Pending
    /\ TsIdle /\ StoreIdle /\ DriverIdle

CallNormalize ==
    /\ ~n_ret.done
    /\ \E r \in normalize_ohlc(n_arg, 210) :
          n_ret' = [done |-> TRUE, exc |-> r.exc, df |-> r.df]
    /\ UNCHANGED <<tsVars, n_arg, g_resp, g_ret, store, hist, driverVars>>

CallGetOhlc ==
    /\ ~g_ret.done
    /\ \E i \in 1..NumPairs :
         \E r \in get_ohlc(PairAt(i).symbol, PairAt(i).tf, g_resp) :
          g_ret' = [done |-> TRUE, exc |-> r.exc, df |-> r.df]
    /\ UNCHANGED <<tsVars, n_arg, n_ret, g_resp, store, hist, driverVars>>

NextNorm == CallNormalize \/ CallGetOhlc

SpecNorm == InitNorm /\ [][NextNorm]_vars

(***************************************************************************)
(* SpecStore: save_to_csv called again and again for one key, each time    *)
(* with a non-empty table that get_ohlc returned.  hist records each call  *)
(* that returned: the file before it, the table passed, the file after.    *)
(***************************************************************************)
StoreKey == PairAt(1)

StoreFile == Filename(StoreKey.symbol, StoreKey.tf)

InitStore == store = EmptyStore /\ hist = << >> /\ TsIdle /\ NormIdle /\ DriverIdle

CallSaveToCsv ==
    /\ Len(hist) < MaxSaves
    /\ \E d \in StoreTables, io \in IoOutcomes :
         \E r \in save_to_csv(store, d, StoreKey.symbol, StoreKey.tf, io) :
          /\ store' = r.store
          /\ hist' = (IF r.exc = "none"
                       THEN Append(hist, [before |-> store[StoreFile], arg |-> d,
                                          after |-> r.store[StoreFile]])
                       ELSE hist)
    /\ UNCHANGED <<tsVars, normVars, driverVars>>

NextStore == CallSaveToCsv

SpecStore == InitStore /\ [][NextStore]_vars

(***************************************************************************)
(* Spec: the batch script (the __main__ block), run up to MaxRuns times    *)
(* against the same csv_data/.  One run walks the first NumPairs pairs of  *)
(* SYMBOLS x TIMEFRAMES.                                                   *)
(***************************************************************************)
MAX_RETRIES == 3

\* time.sleep(2)
RETRY_DELAY == 2

CurSymbol == PairAt(idx).symbol
CurTf == PairAt(idx).tf
CurFile == Filename(CurSymbol, CurTf)

\* The top of the loop body for pair i: df = pd.DataFrame(), attempt = 1
EnterPair(i) ==
    /\ idx' = i /\ attempt' = 1 /\ df' = EmptyFrame /\ pc' = "fetch"
    /\ calls' = 0 /\ fails' = 0 /\ sleeps' = 0 /\ delay' = 0 /\ saves' = 0
    /\ callsAfterOk' = 0 /\ okDf' = EmptyFrame /\ savedDf' = EmptyFrame
    /\ startFile' = store[Filename(PairAt(i).symbol, PairAt(i).tf)]

Init ==
    /\ store = EmptyStore /\ hist = << >> /\ TsIdle /\ NormIdle
    /\ run = 1 /\ reports = << >>
    /\ idx = 1 /\ attempt = 1 /\ df = EmptyFrame /\ pc = "fetch"
    /\ calls = 0 /\ fails = 0 /\ sleeps = 0 /\ delay = 0 /\ saves = 0
    /\ callsAfterOk = 0 /\ okDf = EmptyFrame /\ savedDf = EmptyFrame
    /\ startFile = NoFile

\* One pass of the retry loop's try block without the break
AttemptNoBreak ==
    /\ pc = "fetch"
    /\ \E resp \in BatchResponses : \E r \in get_ohlc(CurSymbol, CurTf, resp) :
          /\ calls' = calls + 1
          /\ callsAfterOk' = callsAfterOk + (IF IsEmptyFrame(okDf) THEN 0 ELSE 1)
          /\ df' = (IF r.exc = "none" THEN r.df ELSE df)
          /\ okDf' = (IF r.exc = "none" /\ ~IsEmptyFrame(r.df) THEN r.df ELSE okDf)
          /\ pc' = "sleep"
          /\ fails' = (IF r.exc = "none" /\ ~IsEmptyFrame(r.df) THEN fails ELSE fails + 1)
    /\ UNCHANGED <<tsVars, normVars, store, hist, run, idx, attempt, sleeps, delay,
                   saves, savedDf, startFile, reports>>

\* One pass of the retry loop's try block: df = get_ohlc(symbol, tf); break
\* when df is not empty; an exception is printed; otherwise on to the sleep
Attempt ==
    /\ pc = "fetch"
    /\ \E resp \in BatchResponses : \E r \in get_ohlc(CurSymbol, CurTf, resp) :
          /\ calls' = calls + 1
          /\ callsAfterOk' = callsAfterOk + (IF IsEmptyFrame(okDf) THEN 0 ELSE 1)
          /\ df' = (IF r.exc = "none" THEN r.df ELSE df)
          /\ okDf' = (IF r.exc = "none" /\ ~IsEmptyFrame(r.df) THEN r.df ELSE okDf)
          /\ pc' = (IF r.exc = "none" /\ ~IsEmptyFrame(r.df) THEN "finish" ELSE "sleep")
          /\ fails' = (IF r.exc = "none" /\ ~IsEmptyFrame(r.df) THEN fails ELSE fails + 1)
    /\ UNCHANGED <<tsVars, normVars, store, hist, run, idx, attempt, sleeps, delay,
                   saves, savedDf, startFile, reports>>

\* time.sleep(2) at the end of a pass, then the next pass or the end of the loop
Sleep ==
    /\ pc = "sleep"
    /\ sleeps' = sleeps + 1
    /\ delay' = delay + RETRY_DELAY
    /\ attempt' = (IF attempt < MAX_RETRIES THEN attempt + 1 ELSE attempt)
    /\ pc' = (IF attempt < MAX_RETRIES THEN "fetch" ELSE "finish")
    /\ UNCHANGED <<tsVars, normVars, store, hist, run, idx, df, calls, fails, saves,
                   callsAfterOk, okDf, savedDf, startFile, reports>>

\* save_to_csv(df, symbol, tf) and the "Saved" line; an exception of
\* save_to_csv is caught nowhere and ends the script
SaveBody ==
    \E io \in IoOutcomes : \E r \in save_to_csv(store, df, CurSymbol, CurTf, io) :
          /\ saves' = saves + 1
          /\ savedDf' = df
          /\ store' = r.store
          /\ pc' = (IF r.exc = "none" THEN "next" ELSE "crashed")
          /\ reports' = (IF r.exc = "none"
                          THEN Append(reports, [symbol |-> CurSymbol, tf |-> CurTf, ok |-> TRUE])
                          ELSE reports)

\* The same without the test of df.empty
SaveAlways ==
    /\ pc = "finish"
    /\ SaveBody
    /\ UNCHANGED <<tsVars, normVars, hist, run, idx, attempt, df, calls, fails, sleeps,
                   delay, callsAfterOk, okDf, startFile>>

\* if not df.empty: save_to_csv(df, symbol, tf); print Saved
Save ==
    /\ pc = "finish"
    /\ ~IsEmptyFrame(df)
    /\ SaveBody
    /\ UNCHANGED <<tsVars, normVars, hist, run, idx, attempt, df, calls, fails, sleeps,
                   delay, callsAfterOk, okDf, startFile>>

\* else: print Failed
ReportFailure ==
    /\ pc = "finish"
    /\ IsEmptyFrame(df)
    /\ reports' = Append(reports, [symbol |-> CurSymbol, tf |-> CurTf, ok |-> FALSE])
    /\ pc' = "next"
    /\ UNCHANGED <<tsVars, normVars, store, hist, run, idx, attempt, df, calls, fails,
                   sleeps, delay, saves, callsAfterOk, okDf, savedDf, startFile>>

\* The loop headers: the next pair, or the end of the script
NextPair ==
    /\ pc = "next"
    /\ IF idx < NumPairs
       THEN EnterPair(idx + 1) /\ UNCHANGED <<run, reports>>
       ELSE pc' = "done" /\ UNCHANGED <<run, idx, attempt, df, calls, fails, sleeps, delay,
                                        saves, callsAfterOk, okDf, savedDf, startFile, reports>>
    /\ UNCHANGED <<tsVars, normVars, store, hist>>

\* The script is started again; csv_data/ is what the last run left
Rerun ==
    /\ pc \in {"done", "crashed"}
    /\ run < MaxRuns
    /\ run' = run + 1
    /\ reports' = << >>
    /\ EnterPair(1)
    /\ UNCHANGED <<tsVars, normVars, store, hist>>

Next == Attempt \/ Sleep \/ Save \/ ReportFailure \/ NextPair \/ Rerun

Spec == Init /\ [][Next]_vars

(***************************************************************************)
(* Properties.                                                             *)
(***************************************************************************)
Rows(d) == {d[i] : i \in 1..Len(d)}

\* The first row of d whose Date is x
FirstWithDate(d, x) == d[CHOOSE i \in 1..Len(d) :
                           d[i].Date = x /\ \A j \in 1..(i - 1) : d[j].Date # x]

\* For the call hist[k] on an existing file: E, I and the table persisted
HistE(k) == read_csv(hist[k].before.lines)
HistI(k) == hist[k].arg
HistR(k) == read_csv(hist[k].after.lines)

\* C1: after save_to_csv on an existing table E with incoming I, the persisted
\* table has, for each Date in both E and I, E's row and not I's row; it is
\* sorted ascending by Date (rows without a Date last); no Date occurs twice.
C1_MergeExistingWins ==
    \A k \in 1..Len(hist) :
      hist[k].before.exists =>
        /\ \A i \in 1..Len(HistE(k)), j \in 1..Len(HistI(k)) :
              HistE(k)[i].Date = HistI(k)[j].Date =>
                /\ \E r \in 1..Len(HistR(k)) : HistR(k)[r].Date = HistE(k)[i].Date
                /\ \A r \in 1..Len(HistR(k)) :
                      HistR(k)[r].Date = HistE(k)[i].Date =>
                        HistR(k)[r] = FirstWithDate(HistE(k), HistE(k)[i].Date)
                /\ HistI(k)[j] \notin Rows(HistE(k)) => HistI(k)[j] \notin Rows(HistR(k))
        /\ IsSortedByDate(HistR(k))
        /\ NoDuplicateDates(HistR(k))

\* C1's case: a save onto an existing table that shares a Date with the
\* incoming one, under different prices
C1_Witness ==
    \E k \in 1..Len(hist) :
      /\ hist[k].before.exists
      /\ \E i \in 1..Len(HistE(k)), j \in 1..Len(HistI(k)) :
           /\ HistE(k)[i].Date = HistI(k)[j].Date
           /\ HistE(k)[i].Date.tag = "date"
           /\ HistE(k)[i] # HistI(k)[j]
      /\ Len(HistR(k)) > 1

\* C2: starting without a table for the key, saving the same table T twice
\* leaves the content that saving it once left.
C2_SaveTwiceIsSaveOnce ==
    (Len(hist) >= 2 /\ ~hist[1].before.exists /\ hist[1].arg = hist[2].arg)
        => hist[2].after = hist[1].after

\* C3: in every reachable state, the persisted table of every key has no two
\* rows with the same Date.
C3_NoDuplicateDatesPersisted ==
    \A f \in Filenames : store[f].exists => NoDuplicateDates(read_csv(store[f].lines))

\* C4: per pair get_ohlc is called at least once and at most 3 times, every
\* failed attempt is followed by one 2-unit delay, and no call follows an
\* attempt that returned a non-empty table.
C4_RetryLoop ==
    /\ calls <= 3
    /\ pc \in {"finish", "next", "crashed"} => calls >= 1
    /\ pc \in {"fetch", "finish", "next", "crashed", "done"} => sleeps = fails
    /\ pc = "sleep" => sleeps + 1 = fails
    /\ delay = 2 * sleeps
    /\ callsAfterOk = 0
    /\ ~IsEmptyFrame(okDf) => calls = fails + 1

\* C4's case: the second attempt of a pair returned a non-empty table, after
\* one failed attempt and its delay
C4_Witness ==
    pc = "finish" /\ calls = 2 /\ fails = 1 /\ delay = 2 /\ ~IsEmptyFrame(okDf)

\* C5: per pair save_to_csv is invoked exactly once, with the table of the
\* successful attempt, if an attempt returned a non-empty table, and not at
\* all if all 3 attempts failed; then the failure is reported, no exception
\* escapes and the file of the key is as it was.
C5_SaveOnceOrNever ==
    /\ pc \in {"fetch", "sleep", "finish"} => saves = 0
    /\ pc \in {"next", "crashed", "done"} =>
          IF ~IsEmptyFrame(okDf)
          THEN saves = 1 /\ savedDf = okDf
          ELSE /\ saves = 0
               /\ calls = 3 /\ fails = 3
               /\ pc # "crashed"
               /\ reports # << >>
               /\ reports[Len(reports)] = [symbol |-> CurSymbol, tf |-> CurTf, ok |-> FALSE]
               /\ store[CurFile] = startFile

\* C5's case: all 3 attempts of a pair failed while the key has a table from
\* an earlier run
C5_Witness ==
    /\ pc = "next" /\ IsEmptyFrame(okDf) /\ calls = 3
    /\ startFile.exists /\ store[CurFile] = startFile

\* C6: the batch always completes: when the script has ended, every pair of
\* the catalog (70 in all) has been reported, as a success or a failure, in
\* catalog order.
C6_BatchAlwaysCompletes ==
    /\ Len(SYMBOLS) * Len(TIMEFRAMES) = 70
    /\ pc \in {"done", "crashed"} =>
          /\ Len(reports) = NumPairs
          /\ \A i \in 1..NumPairs :
                reports[i].symbol = PairAt(i).symbol /\ reports[i].tf = PairAt(i).tf

\* Whether normalize_ohlc raises on the payload
NormalizeRaises(q) == \A r \in normalize_ohlc(q, 210) : r.exc # "none"

\* The provider-side failures of C7
ProviderFailure(resp) ==
    \/ resp.kind \in {"network_error", "http_error", "bad_json", "body_not_object",
                      "data_absent", "data_null", "data_not_object"}
    \/ resp.kind = "data" /\ resp.data.keys = {}
    \/ resp.kind = "data" /\ resp.data.keys # {} /\ NormalizeRaises(resp.data)

\* C7: for a valid symbol and timeframe get_ohlc raises for no provider-side
\* failure (network error, error status, malformed body, a payload that
\* normalize_ohlc cannot process, a missing or empty payload): it returns an
\* empty table.
C7_GetOhlcNeverRaises ==
    (g_ret.done /\ ProviderFailure(g_resp)) =>
        g_ret.exc = "none" /\ IsEmptyFrame(g_ret.df)

\* C7's case: the payload makes normalize_ohlc raise and get_ohlc has
\* returned an empty table
C7_Witness ==
    /\ g_ret.done /\ g_resp.kind = "data" /\ g_resp.data.keys # {}
    /\ NormalizeRaises(g_resp.data)
    /\ g_ret.exc = "none" /\ IsEmptyFrame(g_ret.df)

\* The number of elements of t that are null or not numeric
Invalid(t) == {i \in 1..Len(t) : t[i].tag # "num"}

\* C8: normalize_ohlc raises for no payload; null or non-numeric elements of
\* t stay out of the unit decision and come out as rows with a missing Date.
C8_NormalizeNeverRaises ==
    n_ret.done =>
        /\ n_ret.exc = "none"
        /\ Len(n_ret.df) = Len(n_arg.t)
        /\ Cardinality({i \in 1..Len(n_ret.df) : n_ret.df[i].Date = NaT})
              >= Cardinality(Invalid(n_arg.t))

\* What C9 states to_unix_timestamp returns
C9_Expected(value) ==
    IF value.tag = "null" THEN PyNone
    ELSE IF NumGT(AsNum(value), MS_THRESHOLD) \/ NumGT(NumNeg(AsNum(value)), MS_THRESHOLD)
         THEN PyInt(TruncDiv1000(AsNum(value)))
         ELSE value

\* C9: to_unix_timestamp(v) is v / 1000 truncated toward zero when |v| exceeds
\* 10^12 and v otherwise; None gives None; 1690000000 gives 1690000000 and
\* 1690000000000 gives 1690000000.
C9_ToUnixTimestampByMagnitude ==
    /\ ts_ret.done => ts_ret.val = C9_Expected(ts_arg)
    /\ to_unix_timestamp(PyInt(Num(1690000, 0))) = PyInt(Num(1690000, 0))
    /\ to_unix_timestamp(PyInt(Num(1690000000, 0))) = PyInt(Num(1690000, 0))

\* The Date C10 states for element e of t when the array is in milliseconds
\* (ms) or in seconds
C10_ExpectedDate(e, ms) ==
    IF e.tag # "num" THEN NaT
    ELSE DateOf(AddSmall(IF ms THEN FloorDiv1000(AsNum(e)) ELSE AsNum(e), 210 * 60))

\* C10: one unit decision for the whole array; every non-null element e yields
\* the Date of e div 1000 (maximum above 10^12) or of e (otherwise), shifted
\* to the target offset; only null elements yield a missing Date; the rows
\* are sorted ascending by Date.
C10_OneUnitDecision ==
    (n_ret.done /\ n_ret.exc = "none" /\ n_arg.keys # {}) =>
        LET t == n_arg.t
            ms == \E i \in 1..Len(t) : t[i].tag = "num" /\ NumGT(AsNum(t[i]), MS_THRESHOLD)
        IN /\ Len(n_ret.df) = Len(t)
           /\ \E f \in Perms(Len(t)) :
                 \A i \in 1..Len(t) : n_ret.df[i].Date = C10_ExpectedDate(t[f[i]], ms)
           /\ IsSortedByDate(n_ret.df)

====
